---- MODULE Spec2Model ----
(***************************************************************************)
(* Verification model of asyncronaut's concurrency primitives:             *)
(*   - TaskQueue              (src/common/task-queue.ts)                   *)
(*   - ConcurrentResourcePool (src/common/concurrent-pool.ts)              *)
(*   - withTimeout            (src/common/promises.ts)                     *)
(* Every synchronous stretch of code between two awaits is one action.     *)
(***************************************************************************)
EXTENDS Integers, Sequences, FiniteSets, TLC

\* ------------------------------------------------------------------------
\* Bounds of the task queue model
\* ------------------------------------------------------------------------
MaxTasks == 3
MaxConcurrentTasks == 2
MaxCompletedTaskMemory == 1
MaxTime == 2
MaxDrains == 1

\* the maxQueuedTasks option the queue's tests construct it with; the
\* constructor stores it in _options and no code of TaskQueue reads it
maxQueuedTasks == 2

\* `completedAt || Infinity` in the GC comparator
Infinity == 1000000

VARIABLES
  maxConcurrentTasks, \* QueueOptions.maxConcurrentTasks, fixed by the constructor
  qState,         \* TaskQueue._state
  tasks,          \* TaskQueue._tasks: bucket name -> sequence of task ids
  taskRefs,       \* the TaskRef objects, indexed by task id (enqueue order)
  procs,          \* per task: the handler future and its withTimeout wrapper
  errorListener,  \* whether an 'error' listener is registered on the queue
  errorEmits,     \* per task: number of emit('error', e) calls carrying its error
  dateNow,        \* the injected clock
  drains,         \* pending drain() calls: the set of tasks each one awaits
  abortedIn       \* history: state of the task when its signal was aborted

qvars == <<maxConcurrentTasks, qState, tasks, taskRefs, procs, errorListener, errorEmits, dateNow,
           drains, abortedIn>>

\* (now - createdAt) / 1000 in _markResourcesForRetirement
MsPerSecond == 1000

VARIABLES
  opts,            \* ConcurrentResourcePool._options, fixed by the constructor
  isDrained,       \* _isDrained
  resourceRecords, \* _resourceRecords: sequence of record ids
  recs,            \* the ResourceRecord objects ever created, indexed by record id
  leaseById,       \* _leaseById: the set of lease ids in the map
  leaseRec,        \* per lease id: the id of ResourceInternalLease.resourceRecord (0: no lease)
  acquireQueue,    \* _acquireQueue: sequence of parked requests
  reqs,            \* per acquire(): position of the call and of its withTimeout wrapper
  rels,            \* per lease id: position of the release() call on it
  now              \* wallTime.now(), in milliseconds

pvars == <<opts, isDrained, resourceRecords, recs, leaseById, leaseRec,
           acquireQueue, reqs, rels, now>>

VARIABLES
  wtOptions,     \* PromiseTimeoutOptions of one withTimeout call: which of
                 \* abortController and the two hooks it carries, and whether a hook throws
  source,        \* sourcePromise: its state
  reaction,      \* the callback of the .then(..).catch(..) chain that is queued as a microtask
  promise,       \* the future withTimeout returns: [state, value]
  hasCancelled,  \* the local flag of withTimeout
  timeout,       \* the timer: "armed", "fired" or "cleared"
  signal,        \* abortController.signal: [aborted, reason]
  abortCalls,    \* history: the reasons withTimeout has called abortController.abort with
  hookCalls,     \* history: the invocations of the two cleanup hooks, in order
  events         \* history: the order of the events of the race

wvars == <<wtOptions, source, reaction, promise, hasCancelled, timeout, signal,
           abortCalls, hookCalls, events>>

\* no withTimeout call is under study while the queue or the pool runs
WithTimeoutIdle ==
  /\ wtOptions = [abortController |-> FALSE]
  /\ source = "pending"
  /\ reaction = "none"
  /\ promise = [state |-> "pending", value |-> "none"]
  /\ hasCancelled = FALSE
  /\ timeout = "cleared"
  /\ signal = [aborted |-> FALSE, reason |-> "none"]
  /\ abortCalls = <<>>
  /\ hookCalls = <<>>
  /\ events = <<>>

\* the pool while the task queue runs: never used
PoolIdle ==
  /\ opts = [resourceAllocationMethod |-> "lazy"]
  /\ isDrained = FALSE
  /\ resourceRecords = <<>>
  /\ recs = <<>>
  /\ leaseById = {}
  /\ leaseRec = <<>>
  /\ acquireQueue = <<>>
  /\ reqs = <<>>
  /\ rels = <<>>
  /\ now = MsPerSecond

TaskStates == {"queued", "active", "cancelled", "succeeded", "failed"}
TerminalStates == {"cancelled", "succeeded", "failed"}

TaskIds == 1..Len(taskRefs)

\* ------------------------------------------------------------------------
\* Sequence helpers
\* ------------------------------------------------------------------------
Range(s) == {s[i] : i \in 1..Len(s)}

\* Array.prototype.filter((x) => x !== e)
Without(s, e) == SelectSeq(s, LAMBDA x : x /= e)

\* ------------------------------------------------------------------------
\* The queue as one value, so that the synchronous helpers compose
\* ------------------------------------------------------------------------
Q == [maxConcurrentTasks |-> maxConcurrentTasks, state |-> qState, tasks |-> tasks, refs |-> taskRefs, procs |-> procs,
      emits |-> errorEmits, listener |-> errorListener, now |-> dateNow,
      abortedIn |-> abortedIn]

\* enqueue: the TaskRef literal
NewTaskRef(t) ==
  [state |-> "queued", queuedAt |-> t, completedAt |-> 0, output |-> FALSE,
   error |-> "none", aborted |-> FALSE, reason |-> "none", completed |-> 0]

\* no handler invoked, no withTimeout wrapper yet
NewProc ==
  [handler |-> "none", wt |-> "none", wtError |-> "none", hasCancelled |-> FALSE,
   timer |-> "none", processed |-> FALSE]

\* comparator key of _garbageCollectCompletedTasks
SortKey(refs, t) == IF refs[t].completedAt = 0 THEN Infinity ELSE refs[t].completedAt

\* Array.prototype.sort is stable: ties keep their order in the input
RECURSIVE SortByCompletedAt(_, _)
SortByCompletedAt(refs, s) ==
  IF Len(s) <= 1 THEN s
  ELSE LET rest == SortByCompletedAt(refs, Tail(s))
           x == Head(s)
           k == Cardinality({i \in 1..Len(rest) : SortKey(refs, rest[i]) < SortKey(refs, x)})
       IN SubSeq(rest, 1, k) \o <<x>> \o SubSeq(rest, k + 1, Len(rest))

\* mutant: evicts from the recent end of the sorted list
GarbageCollectNewestTasks(q) ==
  LET completedTasks == SortByCompletedAt(q.refs,
          q.tasks["succeeded"] \o q.tasks["failed"] \o q.tasks["cancelled"])
      n == Len(completedTasks) - MaxCompletedTaskMemory
      numTasksToGc == IF n > 0 THEN n ELSE 0
      gc == Range(SubSeq(completedTasks, Len(completedTasks) - numTasksToGc + 1, Len(completedTasks)))
  IN [q EXCEPT !.tasks = [b \in TaskStates |->
                            SelectSeq(q.tasks[b], LAMBDA x : x \notin gc)]]

\* _garbageCollectCompletedTasks
GarbageCollectCompletedTasks(q) ==
  LET completedTasks == SortByCompletedAt(q.refs,
          q.tasks["succeeded"] \o q.tasks["failed"] \o q.tasks["cancelled"])
      n == Len(completedTasks) - MaxCompletedTaskMemory
      numTasksToGc == IF n > 0 THEN n ELSE 0
      gc == Range(SubSeq(completedTasks, 1, numTasksToGc))
  IN [q EXCEPT !.tasks = [b \in TaskStates |->
                            SelectSeq(q.tasks[b], LAMBDA x : x \notin gc)]]

\* mutant: _processTaskCancellation without its `state !== QUEUED` early return
ProcessTaskCancellationAnyState(q, t) ==
  LET q1 == [q EXCEPT !.refs[t].state = "cancelled",
                      !.refs[t].error = "SignalReason",
                      !.refs[t].completedAt = q.now,
                      !.tasks["queued"] = Without(q.tasks["queued"], t),
                      !.tasks["cancelled"] = Append(q.tasks["cancelled"], t)]
  IN [q1 EXCEPT !.refs[t].completed = @ + 1]

\* mutant: _processTaskCancellation without the removal from the QUEUED list
ProcessTaskCancellationKeepsQueued(q, t) ==
  IF q.refs[t].state /= "queued" THEN q
  ELSE LET q1 == [q EXCEPT !.refs[t].state = "cancelled",
                           !.refs[t].error = "SignalReason",
                           !.refs[t].completedAt = q.now,
                           !.tasks["cancelled"] = Append(q.tasks["cancelled"], t)]
           q2 == GarbageCollectCompletedTasks(q1)
       IN [q2 EXCEPT !.refs[t].completed = @ + 1]

\* _processTaskCancellation: the 'abort' listener installed by enqueue
ProcessTaskCancellation(q, t) ==
  IF q.refs[t].state /= "queued" THEN q
  ELSE LET q1 == [q EXCEPT !.refs[t].state = "cancelled",
                           !.refs[t].error = "SignalReason",
                           !.refs[t].completedAt = q.now,
                           !.tasks["queued"] = Without(q.tasks["queued"], t),
                           !.tasks["cancelled"] = Append(q.tasks["cancelled"], t)]
           q2 == GarbageCollectCompletedTasks(q1)
       IN [q2 EXCEPT !.refs[t].completed = @ + 1]

\* _processTaskSuccess
ProcessTaskSuccess(q, t) ==
  IF q.refs[t].state /= "active" THEN q
  ELSE LET q1 == [q EXCEPT !.refs[t].state = "succeeded",
                           !.refs[t].output = TRUE,
                           !.refs[t].completedAt = q.now,
                           !.tasks["active"] = Without(q.tasks["active"], t),
                           !.tasks["succeeded"] = Append(q.tasks["succeeded"], t)]
           q2 == GarbageCollectCompletedTasks(q1)
       IN [q2 EXCEPT !.refs[t].completed = @ + 1]

\* Does _processTaskFailure leave through the throw of emit('error', e)?
\* EventEmitter.emit('error', e) throws e when no 'error' listener exists.
FailureThrows(q, t) == q.refs[t].state = "active" /\ ~q.listener

\* Which state a failing ACTIVE task is routed to
FailureState(err) == "failed"

\* _processTaskFailure (originalError is never a TaskFailureError here: it
\* is the AbortError/TimeoutError of withTimeout or the handler's rejection)
ProcessTaskFailure(q, t, err) ==
  IF q.refs[t].state /= "active" THEN q
  ELSE LET q1 == [q EXCEPT !.refs[t].state = FailureState(err),
                           !.refs[t].error = err,
                           !.refs[t].completedAt = q.now,
                           !.tasks["active"] = Without(q.tasks["active"], t),
                           !.tasks[FailureState(err)] = Append(q.tasks[FailureState(err)], t)]
           q2 == GarbageCollectCompletedTasks(q1)
       IN IF q.listener
            THEN [q2 EXCEPT !.emits[t] = @ + 1, !.refs[t].completed = @ + 1]
            \* emit throws: resolve() is skipped; the rejection of _process is
            \* caught in _processNext, which emits the same error once more
            ELSE [q2 EXCEPT !.emits[t] = @ + 2]

\* _process up to its await; h is what the handler does when invoked
Process(q, t, h) ==
  LET q1 == [q EXCEPT !.refs[t].state = "active",
                      !.tasks["active"] = Append(q.tasks["active"], t)]
  IN IF h = "threw"
       \* onTask threw synchronously: _process rejects before withTimeout exists
       THEN [q1 EXCEPT !.procs[t].handler = "threw"]
       ELSE [q1 EXCEPT !.procs[t].handler = "pending",
                       !.procs[t].wt = "pending",
                       !.procs[t].timer = "armed"]

\* mutant: pop() instead of shift()
NextTaskRefLast(queued) == queued[Len(queued)]

\* which queued task _processNext takes: Array.prototype.shift
NextTaskRef(queued) == Head(queued)

\* _processNext
ProcessNext(q, h) ==
  LET t == NextTaskRef(q.tasks["queued"])
  IN Process([q EXCEPT !.tasks["queued"] = Without(q.tasks["queued"], t)], t, h)

\* mutant: no test of the queue state
CanStartNextInAnyState(q) ==
  /\ ~(Len(q.tasks["active"]) >= q.maxConcurrentTasks)
  /\ Len(q.tasks["queued"]) /= 0

\* mutant: `>` instead of `>=` in the concurrency check
CanStartNextOffByOne(q) ==
  /\ q.state = "running"
  /\ ~(Len(q.tasks["active"]) > q.maxConcurrentTasks)
  /\ Len(q.tasks["queued"]) /= 0

\* the three early returns of _startNextIfPossible
CanStartNext(q) ==
  /\ q.state = "running"
  /\ ~(Len(q.tasks["active"]) >= q.maxConcurrentTasks)
  /\ Len(q.tasks["queued"]) /= 0

\* _startNextIfPossible
StartNextIfPossible(q, h) ==
  IF CanStartNext(q)
    THEN ProcessNext(q, h) ELSE q

\* mutant: a wrapper that a late resolve(value) or reject(rejection) settles again
SettleWithSourceAgain(p, outcome) ==
  [p EXCEPT !.wt = outcome,
            !.wtError = IF outcome = "rejected" THEN "HandlerError" ELSE @]

\* withTimeout's callbacks on the source future: resolve(value) or
\* reject(rejection) on the wrapper, which settles at most once
SettleWithSource(p, outcome) ==
  IF p.wt /= "pending" THEN p
  ELSE [p EXCEPT !.wt = outcome,
                 !.wtError = IF outcome = "rejected" THEN "HandlerError" ELSE @]

\* the 'abort' listener installed by withTimeout (promises.ts)
WithTimeoutOnAbort(q, t) ==
  IF q.procs[t].wt = "none" \/ q.procs[t].hasCancelled THEN q
  ELSE [q EXCEPT !.procs[t].hasCancelled = TRUE,
                 !.procs[t].wt = IF @ = "pending" THEN "rejected" ELSE @,
                 !.procs[t].wtError = IF q.procs[t].wt = "pending" THEN "AbortError" ELSE @]

\* AbortController.abort(reason): fires the listeners once, in registration order
AbortTask(q, t, cause) ==
  IF q.refs[t].aborted THEN q
  ELSE LET q1 == [q EXCEPT !.refs[t].aborted = TRUE,
                           !.refs[t].reason = cause,
                           !.abortedIn[t] = q.refs[t].state]
       IN WithTimeoutOnAbort(ProcessTaskCancellation(q1, t), t)

RECURSIVE AbortAll(_, _, _)
AbortAll(q, s, cause) ==
  IF s = <<>> THEN q ELSE AbortAll(AbortTask(q, Head(s), cause), Tail(s), cause)

\* a continuation of a settled withTimeout future is waiting in the microtask queue
MicrotasksPending ==
  \E t \in TaskIds : procs[t].wt \in {"resolved", "rejected"} /\ ~procs[t].processed

\* ------------------------------------------------------------------------
\* Actions of the task queue
\* ------------------------------------------------------------------------
Commit(q) ==
  /\ UNCHANGED <<pvars, wvars>>
  /\ UNCHANGED maxConcurrentTasks
  /\ qState' = q.state
  /\ tasks' = q.tasks
  /\ taskRefs' = q.refs
  /\ procs' = q.procs
  /\ errorEmits' = q.emits
  /\ abortedIn' = q.abortedIn

QInit ==
  /\ PoolIdle
  /\ WithTimeoutIdle
  /\ maxConcurrentTasks \in 1..MaxConcurrentTasks
  /\ qState = "paused"
  /\ tasks = [b \in TaskStates |-> <<>>]
  /\ taskRefs = <<>>
  /\ procs = <<>>
  /\ errorListener = FALSE
  /\ errorEmits = <<>>
  /\ dateNow = 1
  /\ drains = <<>>
  /\ abortedIn = <<>>

\* queue.on('error', listener)
OnError ==
  /\ ~errorListener
  /\ errorListener' = TRUE
  /\ UNCHANGED <<pvars, wvars>>
  /\ UNCHANGED <<maxConcurrentTasks, qState, tasks, taskRefs, procs, errorEmits, dateNow, drains, abortedIn>>

\* the injected clock advances
Tick ==
  /\ dateNow < MaxTime
  /\ dateNow' = dateNow + 1
  /\ UNCHANGED <<pvars, wvars>>
  /\ UNCHANGED <<maxConcurrentTasks, qState, tasks, taskRefs, procs, errorListener, errorEmits, drains, abortedIn>>

\* enqueue(input, {signal})
Enqueue(h) ==
  /\ qState \notin {"draining", "drained"}
  /\ Len(taskRefs) < MaxTasks
  /\ LET t == Len(taskRefs) + 1
         q1 == [Q EXCEPT !.refs = Append(@, NewTaskRef(dateNow)),
                         !.procs = Append(@, NewProc),
                         !.emits = Append(@, 0),
                         !.abortedIn = Append(@, "none"),
                         !.tasks["queued"] = Append(@, t)]
     IN Commit(StartNextIfPossible(q1, h))
  /\ UNCHANGED <<errorListener, dateNow, drains>>

\* start()
Start(h) ==
  /\ qState = "paused"
  /\ Commit(StartNextIfPossible([Q EXCEPT !.state = "running"], h))
  /\ UNCHANGED <<errorListener, dateNow, drains>>

\* pause()
Pause ==
  /\ qState = "running"
  /\ qState' = "paused"
  /\ UNCHANGED <<pvars, wvars>>
  /\ UNCHANGED <<maxConcurrentTasks, tasks, taskRefs, procs, errorListener, errorEmits, dateNow, drains, abortedIn>>

\* taskRef.abort(reason), called directly or by the listener that enqueue puts
\* on the caller's signal (abortController.abort(signal.reason))
Abort(t) ==
  /\ ~taskRefs[t].aborted
  /\ Commit(AbortTask(Q, t, "user"))
  /\ UNCHANGED <<errorListener, dateNow, drains>>

\* the handler's future settles; the callbacks withTimeout attached to it run
HandlerSettles(t, outcome) ==
  /\ procs[t].handler = "pending"
  /\ procs' = [procs EXCEPT ![t] = [SettleWithSource(@, outcome) EXCEPT
                                       !.handler = outcome,
                                       !.timer = IF @ = "armed" THEN "off" ELSE @]]
  /\ UNCHANGED <<pvars, wvars>>
  /\ UNCHANGED <<maxConcurrentTasks, qState, tasks, taskRefs, errorListener, errorEmits, dateNow, drains, abortedIn>>

\* mutant: the timer rejects the wrapper but does not abort the task's signal
TimerFiresWithoutAbort(t) ==
  /\ procs[t].timer = "armed"
  /\ ~MicrotasksPending
  /\ LET q1 == [Q EXCEPT !.procs[t].timer = "off",
                         !.procs[t].hasCancelled = TRUE,
                         !.procs[t].wt = IF @ = "pending" THEN "rejected" ELSE @,
                         !.procs[t].wtError = IF procs[t].wt = "pending" THEN "TimeoutError" ELSE @]
     IN Commit(q1)
  /\ UNCHANGED <<errorListener, dateNow, drains>>

\* the 60 000 ms timer of withTimeout fires (a macrotask)
TimerFires(t) ==
  /\ procs[t].timer = "armed"
  /\ ~MicrotasksPending
  /\ LET q1 == [Q EXCEPT !.procs[t].timer = "off",
                         !.procs[t].hasCancelled = TRUE,
                         !.procs[t].wt = IF @ = "pending" THEN "rejected" ELSE @,
                         !.procs[t].wtError = IF procs[t].wt = "pending" THEN "TimeoutError" ELSE @]
     IN Commit(AbortTask(q1, t, "timeout"))
  /\ UNCHANGED <<errorListener, dateNow, drains>>

\* _process after its await: .then(success).catch(failure), then _startNextIfPossible
ProcessContinues(t, h) ==
  /\ procs[t].wt \in {"resolved", "rejected"}
  /\ ~procs[t].processed
  /\ LET q0 == [Q EXCEPT !.procs[t].processed = TRUE]
     IN IF procs[t].wt = "resolved"
          THEN Commit(StartNextIfPossible(ProcessTaskSuccess(q0, t), h))
          ELSE IF FailureThrows(q0, t)
                 THEN Commit(ProcessTaskFailure(q0, t, procs[t].wtError))
                 ELSE Commit(StartNextIfPossible(ProcessTaskFailure(q0, t, procs[t].wtError), h))
  /\ UNCHANGED <<errorListener, dateNow, drains>>

\* drain() up to its await
Drain ==
  /\ Len(drains) < MaxDrains
  /\ LET q1 == [Q EXCEPT !.state = "draining"]
         q2 == AbortAll(q1, Q.tasks["queued"], "drain")
         q3 == AbortAll(q2, Q.tasks["active"], "drain")
     IN Commit(q3)
  /\ drains' = Append(drains, Range(tasks["queued"]) \cup Range(tasks["active"]))
  /\ UNCHANGED <<errorListener, dateNow>>

\* waitForCompletion inside drain: Promise.all settled, re-check, then DRAINED
DrainContinues(i) ==
  /\ i \in 1..Len(drains)
  /\ \A t \in drains[i] : taskRefs[t].completed > 0
  /\ IF Len(tasks["queued"]) /= 0 \/ Len(tasks["active"]) /= 0
       THEN /\ drains' = [drains EXCEPT ![i] = Range(tasks["queued"]) \cup Range(tasks["active"])]
            /\ drains' /= drains
            /\ UNCHANGED qState
       ELSE /\ drains' = SubSeq(drains, 1, i - 1) \o SubSeq(drains, i + 1, Len(drains))
            /\ qState' = "drained"
  /\ UNCHANGED <<pvars, wvars>>
  /\ UNCHANGED <<maxConcurrentTasks, tasks, taskRefs, procs, errorListener, errorEmits, dateNow, abortedIn>>

HandlerBehaviours == {"pending", "threw"}

QNext ==
  \/ OnError
  \/ \E h \in HandlerBehaviours : Enqueue(h)
  \/ \E h \in HandlerBehaviours : Start(h)
  \/ Pause
  \/ \E t \in TaskIds : Abort(t)
  \/ \E t \in TaskIds, o \in {"resolved", "rejected"} : HandlerSettles(t, o)
  \/ \E t \in TaskIds : TimerFires(t)
  \/ \E t \in TaskIds, h \in HandlerBehaviours : ProcessContinues(t, h)
  \/ Drain
  \/ \E i \in 1..Len(drains) : DrainContinues(i)


\* ========================================================================
\* ConcurrentResourcePool
\* ========================================================================

\* Bounds of the pool model
MaxAcquires == 3
MaxRecords == 3
MaxNow == 2

\* The pool as one value, so that the synchronous (and mutually recursive)
\* helpers compose.  A lease carries the id of the acquire() that reserved it.
P == [opts |-> opts, isDrained |-> isDrained, resourceRecords |-> resourceRecords,
      recs |-> recs, leaseById |-> leaseById, leaseRec |-> leaseRec,
      acquireQueue |-> acquireQueue, reqs |-> reqs, now |-> now]

\* _createResource: the ResourceRecord literal (retiredAt 0 is `undefined`)
NewRecord(t) ==
  [createdAt |-> t, retiredAt |-> 0, activeLeases |-> <<>>, pastLeases |-> <<>>,
   resourceRef |-> "pending", destroyRef |-> "unset", destroys |-> 0,
   create |-> "pending"]

\* a variant of _canCreateNewResource that admits one record too many
CanCreateNewResourceInclusive(p) == Len(p.resourceRecords) <= p.opts.maxResources

\* _canCreateNewResource
CanCreateNewResource(p) == Len(p.resourceRecords) < p.opts.maxResources

\* `if (record.retiredAt)`: a timestamp of 0 would read as not retired
IsRetired(rec) == rec.retiredAt /= 0

RECURSIVE SumSeq(_)
SumSeq(s) == IF s = <<>> THEN 0 ELSE Head(s) + SumSeq(Tail(s))

\* _getAvailableCapacity
GetAvailableCapacity(p) ==
  LET perRecord == [i \in 1..Len(p.resourceRecords) |->
                      LET rec == p.recs[p.resourceRecords[i]]
                      IN IF IsRetired(rec) THEN 0
                         ELSE p.opts.maxConcurrentLeasesPerResource - Len(rec.activeLeases)]
      numAdditionalResources == p.opts.maxResources - Len(p.resourceRecords)
  IN SumSeq(perRecord) + numAdditionalResources * p.opts.maxConcurrentLeasesPerResource

\* a variant of the capacity test that admits one lease too many
HasCapacityOffByOne(p, id) ==
  /\ ~IsRetired(p.recs[id])
  /\ ~(Len(p.recs[id].activeLeases) > p.opts.maxConcurrentLeasesPerResource)

\* a variant of the capacity test that does not skip retired records
HasCapacityWhenRetired(p, id) ==
  ~(Len(p.recs[id].activeLeases) >= p.opts.maxConcurrentLeasesPerResource)

\* the test of the loop of _findResourceWithCapacity
HasCapacity(p, id) ==
  /\ ~IsRetired(p.recs[id])
  /\ ~(Len(p.recs[id].activeLeases) >= p.opts.maxConcurrentLeasesPerResource)

\* _findResourceWithCapacity: the first record in insertion order, 0 if none
FindResourceWithCapacity(p) ==
  LET idx == {i \in 1..Len(p.resourceRecords) : HasCapacity(p, p.resourceRecords[i])}
  IN IF idx = {} THEN 0
     ELSE p.resourceRecords[CHOOSE i \in idx : \A j \in idx : i <= j]

\* _createResource: create() is started, the record is appended
CreateResource(p) ==
  [p EXCEPT !.recs = Append(@, NewRecord(p.now)),
            !.resourceRecords = Append(@, Len(p.recs) + 1)]

\* _markResourceAsRetired
MarkResourceAsRetired(p, id) == [p EXCEPT !.recs[id].retiredAt = p.now]

\* mutant: `>` instead of `>=` in the test of the number of uses
ShouldRetireOneUseLate(p, id) ==
  LET rec == p.recs[id]
  IN /\ ~IsRetired(rec)
     /\ \/ Len(rec.activeLeases) + Len(rec.pastLeases) > p.opts.retireResourceAfterUses
        \/ (p.now - rec.createdAt) \div MsPerSecond >= p.opts.retireResourceAfterSeconds

\* the filter predicate of _markResourcesForRetirement
ShouldRetire(p, id) ==
  LET rec == p.recs[id]
  IN /\ ~IsRetired(rec)
     /\ \/ Len(rec.activeLeases) + Len(rec.pastLeases) >= p.opts.retireResourceAfterUses
        \/ (p.now - rec.createdAt) \div MsPerSecond >= p.opts.retireResourceAfterSeconds

\* _markResourcesForRetirement: the filter, then the loop that calls
\* _markResourceAsRetired; the test of one record reads that record only
RECURSIVE RetireEach(_, _)
RetireEach(p, records) ==
  IF records = <<>> THEN p
  ELSE RetireEach(IF ShouldRetire(p, Head(records))
                    THEN MarkResourceAsRetired(p, Head(records)) ELSE p,
                  Tail(records))

MarkResourcesForRetirement(p) == RetireEach(p, p.resourceRecords)

\* a variant of the destruction test that does not ask for retirement
ShouldDestroyUnretired(p, id) ==
  LET rec == p.recs[id]
      secondsSinceRetirement == p.now - rec.retiredAt
      shouldForciblyClose ==
        secondsSinceRetirement >= p.opts.destroyRetiredResourceForciblyAfterSeconds
  IN Len(rec.activeLeases) = 0 \/ shouldForciblyClose

\* the test of the loop of _destroyRetiredResources
ShouldDestroy(p, id) ==
  LET rec == p.recs[id]
      secondsSinceRetirement == p.now - rec.retiredAt
      shouldForciblyClose ==
        secondsSinceRetirement >= p.opts.destroyRetiredResourceForciblyAfterSeconds
  IN IsRetired(rec) /\ (Len(rec.activeLeases) = 0 \/ shouldForciblyClose)

\* _createMinimumResources
RECURSIVE CreateN(_, _)
CreateN(p, n) == IF n <= 0 THEN p ELSE CreateN(CreateResource(p), n - 1)

CreateMinimumResources(p) ==
  IF p.isDrained THEN p
  ELSE CreateN(p, p.opts.minResources - Len(p.resourceRecords))

\* a variant of the dequeue that takes the newest request: Array.prototype.pop
NextRequestNewest(queue) == queue[Len(queue)]

\* which parked request the dequeue loop takes: Array.prototype.shift
NextRequest(queue) == Head(queue)

\* the dequeue loop of _updateAvailableResources: nextRequest.resolve()
RECURSIVE WakeRequests(_, _)
WakeRequests(p, n) ==
  IF n <= 0 \/ Len(p.acquireQueue) = 0 THEN p
  ELSE LET r == NextRequest(p.acquireQueue)
       IN WakeRequests([p EXCEPT !.acquireQueue = Without(@, r),
                                 !.reqs[r].pc = "woken"], n - 1)

RECURSIVE UpdateAvailableResources(_)
RECURSIVE MarkResourceAsReleased(_, _)
RECURSIVE ReleaseLeases(_, _)
RECURSIVE DestroyResource(_, _)
RECURSIVE DestroyRetiredResourcesIn(_, _)

\* _updateAvailableResources: the revalidate step
UpdateAvailableResources(p) ==
  LET p1 == MarkResourcesForRetirement(p)
      p2 == DestroyRetiredResourcesIn(p1, p1.resourceRecords)
      p3 == CreateMinimumResources(p2)
  IN WakeRequests(p3, GetAvailableCapacity(p3))

\* _markResourceAsReleased
MarkResourceAsReleased(p, l) ==
  LET id == p.leaseRec[l]
  IN UpdateAvailableResources(
       [p EXCEPT !.recs[id].activeLeases = Without(@, l),
                 !.recs[id].pastLeases = IF l \in Range(@) THEN @ ELSE Append(@, l),
                 !.leaseById = @ \ {l}])

\* the loop of _destroyResource over the record's active leases
ReleaseLeases(p, leases) ==
  IF leases = <<>> THEN p
  ELSE ReleaseLeases(MarkResourceAsReleased(p, Head(leases)), Tail(leases))

\* _destroyResource: destruction is started (destroyRef is replaced)
DestroyResource(p, id) ==
  LET p1 == [p EXCEPT !.resourceRecords = Without(@, id)]
      p2 == ReleaseLeases(p1, p1.recs[id].activeLeases)
  IN [p2 EXCEPT !.recs[id].destroyRef = "pending",
                !.recs[id].destroys = @ + 1]

\* _destroyRetiredResources: the for-of loop runs over the array that
\* _resourceRecords named when the loop began
DestroyRetiredResourcesIn(p, records) ==
  IF records = <<>> THEN p
  ELSE DestroyRetiredResourcesIn(
         IF ShouldDestroy(p, Head(records)) THEN DestroyResource(p, Head(records)) ELSE p,
         Tail(records))

\* _markResourceAsLeased; the lease takes the id l
MarkResourceAsLeased(p, id, l) ==
  UpdateAvailableResources(
    [p EXCEPT !.recs[id].activeLeases = Append(@, l),
              !.leaseById = @ \cup {l},
              !.leaseRec[l] = id])

\* mutant: creates whenever it can, whatever the allocation method
AcquireInternalLeaseCreatingFirst(p, l) ==
  LET found == FindResourceWithCapacity(p)
      created == CreateResource(p)
  IN IF CanCreateNewResource(p)
       THEN MarkResourceAsLeased(created, Len(created.recs), l)
       ELSE IF found /= 0 THEN MarkResourceAsLeased(p, found, l)
            ELSE p

\* _acquireInternalLeaseIfAvailable for request l; leaseRec[l] stays 0 when
\* the function returns undefined
AcquireInternalLeaseIfAvailable(p, l) ==
  LET found == FindResourceWithCapacity(p)
      created == CreateResource(p)
  IN IF p.opts.resourceAllocationMethod = "lazy"
       THEN IF found /= 0 THEN MarkResourceAsLeased(p, found, l)
            ELSE IF CanCreateNewResource(p)
                   THEN MarkResourceAsLeased(created, Len(created.recs), l)
                   ELSE p
       ELSE IF CanCreateNewResource(p)
              THEN MarkResourceAsLeased(created, Len(created.recs), l)
              ELSE IF found /= 0 THEN MarkResourceAsLeased(p, found, l)
                   ELSE p

\* ------------------------------------------------------------------------
\* Actions of the pool
\* ------------------------------------------------------------------------
PCommit(p) ==
  /\ UNCHANGED <<qvars, wvars>>
  /\ UNCHANGED opts
  /\ isDrained' = p.isDrained
  /\ resourceRecords' = p.resourceRecords
  /\ recs' = p.recs
  /\ leaseById' = p.leaseById
  /\ leaseRec' = p.leaseRec
  /\ acquireQueue' = p.acquireQueue
  /\ reqs' = p.reqs
  /\ Len(p.recs) <= MaxRecords

\* the defaults of the constructor
DefaultOptions ==
  [maxConcurrentLeasesPerResource |-> 1,
   minResources |-> 0,
   maxResources |-> Infinity,
   maxQueuedAcquireRequests |-> Infinity,
   retireResourceAfterUses |-> Infinity,
   retireResourceAfterSeconds |-> Infinity,
   destroyRetiredResourceForciblyAfterSeconds |-> Infinity,
   resourceAllocationMethod |-> "lazy",
   createTimeoutMs |-> Infinity,
   destroyTimeoutMs |-> Infinity,
   defaultReleaseTimeoutMs |-> Infinity]

\* the options the constructor is called with: pools small enough for the
\* bounded number of acquire() calls to exhaust
PoolOptions ==
  { [DefaultOptions EXCEPT !.maxResources = 1],
    [DefaultOptions EXCEPT !.maxResources = 1,
                           !.maxConcurrentLeasesPerResource = 2,
                           !.retireResourceAfterUses = 2,
                           !.retireResourceAfterSeconds = 1,
                           !.maxQueuedAcquireRequests = 1],
    [DefaultOptions EXCEPT !.maxResources = 2,
                           !.minResources = 1,
                           !.resourceAllocationMethod = "eager"] }

\* the task queue while the pool runs: never used
QueueIdle ==
  /\ maxConcurrentTasks = 1
  /\ qState = "paused"
  /\ tasks = [b \in TaskStates |-> <<>>]
  /\ taskRefs = <<>>
  /\ procs = <<>>
  /\ errorListener = FALSE
  /\ errorEmits = <<>>
  /\ dateNow = 1
  /\ drains = <<>>
  /\ abortedIn = <<>>

PInit ==
  /\ QueueIdle
  /\ WithTimeoutIdle
  /\ opts \in PoolOptions
  /\ isDrained = FALSE
  /\ resourceRecords = <<>>
  /\ recs = <<>>
  /\ leaseById = {}
  /\ leaseRec = <<>>
  /\ acquireQueue = <<>>
  /\ reqs = <<>>
  /\ rels = <<>>
  /\ now = MsPerSecond

RequestIds == 1..Len(reqs)
RecordIds == 1..Len(recs)

\* a continuation of a woken request is waiting in the microtask queue
PoolMicrotasksPending == \E r \in RequestIds : reqs[r].pc = "woken"

\* the pool reads the clock only to compare ages with these two options
ClockMatters ==
  \/ opts.retireResourceAfterSeconds /= Infinity
  \/ opts.destroyRetiredResourceForciblyAfterSeconds /= Infinity

\* wallTime.now() advances by a second
PoolTick ==
  /\ ClockMatters
  /\ now < MaxNow * MsPerSecond
  /\ now' = now + MsPerSecond
  /\ UNCHANGED <<qvars, wvars>>
  /\ UNCHANGED <<opts, isDrained, resourceRecords, recs, leaseById, leaseRec,
                 acquireQueue, reqs, rels>>

\* initialize(): the revalidate step (the await changes nothing)
Initialize ==
  /\ ~isDrained
  /\ PCommit(UpdateAvailableResources(P))
  /\ UNCHANGED <<rels, now>>

\* a variant of the back-pressure test that parks one request too many
QueueIsFullOffByOne(p) == Len(p.acquireQueue) > p.opts.maxQueuedAcquireRequests

\* acquire: `this._acquireQueue.length >= this._options.maxQueuedAcquireRequests`
QueueIsFull(p) == Len(p.acquireQueue) >= p.opts.maxQueuedAcquireRequests

\* acquire(options) up to its first await.  The request carries a finite
\* timeoutMs; one whose timer never fires behaves as with timeoutMs Infinity.
Acquire ==
  /\ ~isDrained
  /\ Len(reqs) < MaxAcquires
  /\ LET r == Len(reqs) + 1
         p0 == [P EXCEPT !.reqs = Append(@, [pc |-> "start", wt |-> "pending",
                                              timer |-> TRUE, aborted |-> FALSE,
                                              error |-> "none",
                                              parkedAtDrain |-> FALSE]),
                         !.leaseRec = Append(@, 0)]
         p1 == UpdateAvailableResources(p0)
         p2 == AcquireInternalLeaseIfAvailable(p1, r)
     IN IF p2.leaseRec[r] /= 0
          THEN PCommit([p2 EXCEPT !.reqs[r].pc = "awaitResource"])
          ELSE IF QueueIsFull(p2)
                 THEN PCommit([p2 EXCEPT !.reqs[r].pc = "failed",
                                         !.reqs[r].wt = "rejected",
                                         !.reqs[r].timer = FALSE,
                                         !.reqs[r].error = "queueFull"])
                 ELSE PCommit([p2 EXCEPT !.reqs[r].pc = "parked",
                                         !.acquireQueue = Append(@, r)])
  /\ rels' = Append(rels, [pc |-> "none", lease |-> FALSE, timedOut |-> FALSE])
  /\ UNCHANGED now

\* mutant: a catch handler that only rethrows
AcquireFailedKeepsLease(p, r, err) ==
  [p EXCEPT !.reqs[r].pc = "failed",
            !.reqs[r].wt = "rejected",
            !.reqs[r].timer = FALSE,
            !.reqs[r].error = err]

\* the catch handler of acquire: `if (lease) this._markResourceAsReleased(lease)`
AcquireFailed(p, r, err) ==
  LET p1 == [p EXCEPT !.reqs[r].pc = "failed",
                      !.reqs[r].wt = "rejected",
                      !.reqs[r].timer = FALSE,
                      !.reqs[r].error = err]
  IN IF p.leaseRec[r] /= 0 THEN MarkResourceAsReleased(p1, r) ELSE p1

\* mutant: a woken request that does not test signal.aborted
WakeContinuesIgnoringAbort(r) ==
  /\ reqs[r].pc = "woken"
  /\ LET p1 == AcquireInternalLeaseIfAvailable(P, r)
     IN IF p1.leaseRec[r] /= 0
          THEN PCommit([p1 EXCEPT !.reqs[r].pc = "awaitResource"])
          ELSE PCommit(AcquireFailed(p1, r, "invariant"))
  /\ UNCHANGED <<rels, now>>

\* acquire after `await decomposedPromise.promise`
WakeContinues(r) ==
  /\ reqs[r].pc = "woken"
  /\ IF reqs[r].aborted
       \* throw new Error('Operation aborted'): withTimeout has rejected already
       THEN PCommit([P EXCEPT !.reqs[r].pc = "failed"])
       ELSE LET p1 == AcquireInternalLeaseIfAvailable(P, r)
            IN IF p1.leaseRec[r] /= 0
                 THEN PCommit([p1 EXCEPT !.reqs[r].pc = "awaitResource"])
                 ELSE PCommit(AcquireFailed(p1, r, "invariant"))
  /\ UNCHANGED <<rels, now>>

\* awaitAndReturnExternalLease after `await lease.resourceRef`
ResourceAwaited(r) ==
  /\ reqs[r].pc = "awaitResource"
  /\ recs[leaseRec[r]].resourceRef /= "pending"
  /\ IF recs[leaseRec[r]].resourceRef = "resolved"
       THEN PCommit([P EXCEPT !.reqs[r].pc = "onAcquire"])
       ELSE PCommit(AcquireFailed(P, r, "create"))
  /\ UNCHANGED <<rels, now>>

\* the future of onAcquire(externalLease) settles
OnAcquireSettles(r, ok) ==
  /\ reqs[r].pc = "onAcquire"
  /\ IF ok
       THEN PCommit([P EXCEPT !.reqs[r].pc = "returned",
                              !.reqs[r].wt = "resolved",
                              !.reqs[r].timer = FALSE])
       ELSE PCommit(AcquireFailed(P, r, "onAcquire"))
  /\ UNCHANGED <<rels, now>>

\* the timer of acquire's withTimeout fires, then acquire's catch handler
\* runs.  The source keeps running: a parked request stays in _acquireQueue;
\* past that point its remaining steps (onAcquire) touch no pool state.
AcquireTimesOut(r) ==
  /\ reqs[r].timer
  /\ reqs[r].wt = "pending"
  /\ ~PoolMicrotasksPending
  /\ LET p1 == [P EXCEPT !.reqs[r].wt = "rejected",
                         !.reqs[r].timer = FALSE,
                         !.reqs[r].aborted = TRUE,
                         !.reqs[r].error = "timeout",
                         !.reqs[r].pc = IF @ = "parked" THEN @ ELSE "abandoned"]
     IN PCommit(IF leaseRec[r] /= 0 THEN MarkResourceAsReleased(p1, r) ELSE p1)
  /\ UNCHANGED <<rels, now>>

\* the future of create() settles; on rejection the catch handler of
\* _createResource destroys the record
CreateSettles(id, ok) ==
  /\ recs[id].resourceRef = "pending"
  /\ IF ok
       THEN PCommit([P EXCEPT !.recs[id].resourceRef = "resolved",
                              !.recs[id].create = "resolved"])
       ELSE PCommit(DestroyResource([P EXCEPT !.recs[id].resourceRef = "rejected",
                                              !.recs[id].create = "rejected"], id))
  /\ UNCHANGED <<rels, now>>

\* destroyRef settles: destroy(resource) settled, or resourceRef was rejected
DestroySettles(id, ok) ==
  /\ recs[id].destroyRef = "pending"
  /\ recs[id].resourceRef /= "pending"
  /\ ok \/ recs[id].resourceRef = "resolved"
  /\ recs' = [recs EXCEPT ![id].destroyRef =
                IF ok /\ recs[id].resourceRef = "resolved" THEN "done" ELSE "error"]
  /\ UNCHANGED <<qvars, wvars>>
  /\ UNCHANGED <<opts, isDrained, resourceRecords, leaseById, leaseRec, acquireQueue,
                 reqs, rels, now>>

\* release(externalLease) up to `await this._options.onRelease(externalLease)`
Release(l) ==
  /\ reqs[l].wt = "resolved"
  /\ rels[l].pc = "none"
  /\ rels' = [rels EXCEPT ![l] = [pc |-> "onRelease", lease |-> l \in leaseById,
                                   timedOut |-> FALSE]]
  /\ UNCHANGED <<qvars, wvars>>
  /\ UNCHANGED <<opts, isDrained, resourceRecords, recs, leaseById, leaseRec,
                 acquireQueue, reqs, now>>

\* mutant: a catch handler of release that does not release the lease
OnReleaseSettlesOnlyOnSuccess(l, ok) ==
  /\ rels[l].pc = "onRelease"
  /\ LET p1 == IF rels[l].lease /\ ok THEN MarkResourceAsReleased(P, l) ELSE P
         destroying == rels[l].lease /\ p1.recs[leaseRec[l]].destroyRef /= "unset"
     IN /\ PCommit(p1)
        /\ rels' = [rels EXCEPT ![l].pc = IF ok /\ destroying THEN "awaitDestroy" ELSE "done"]
  /\ UNCHANGED now

\* release after onRelease settled, up to `await destroyRef` or its end.
\* A rejection reaches the catch handler unless the timeout has settled the
\* wrapper before.
OnReleaseSettles(l, ok) ==
  /\ rels[l].pc = "onRelease"
  /\ LET p1 == IF rels[l].lease /\ (ok \/ ~rels[l].timedOut)
                 THEN MarkResourceAsReleased(P, l) ELSE P
         destroying == rels[l].lease /\ p1.recs[leaseRec[l]].destroyRef /= "unset"
     IN /\ PCommit(p1)
        /\ rels' = [rels EXCEPT ![l].pc = IF ok /\ destroying THEN "awaitDestroy" ELSE "done"]
  /\ UNCHANGED now

\* release after `await destroyRef`; an error reaches the catch handler,
\* which releases the lease once more
DestroyAwaited(l) ==
  /\ rels[l].pc = "awaitDestroy"
  /\ recs[leaseRec[l]].destroyRef \in {"done", "error"}
  /\ PCommit(IF recs[leaseRec[l]].destroyRef = "error" /\ ~rels[l].timedOut
               THEN MarkResourceAsReleased(P, l) ELSE P)
  /\ rels' = [rels EXCEPT ![l].pc = "done"]
  /\ UNCHANGED now

\* retire(externalLease) up to the await inside the release() it calls
Retire(l) ==
  /\ reqs[l].wt = "resolved"
  /\ rels[l].pc = "none"
  /\ l \in leaseById
  /\ LET p1 == UpdateAvailableResources(MarkResourceAsRetired(P, leaseRec[l]))
     IN /\ PCommit(p1)
        /\ rels' = [rels EXCEPT ![l] = [pc |-> "onRelease", lease |-> l \in p1.leaseById,
                                         timedOut |-> FALSE]]
  /\ UNCHANGED now

\* the loop of drain()
RECURSIVE DestroyAll(_, _)
DestroyAll(p, records) ==
  IF records = <<>> THEN p
  ELSE DestroyAll(DestroyResource(p, Head(records)), Tail(records))

\* history: the requests that sit in _acquireQueue when drain() is called
RECURSIVE MarkParked(_, _)
MarkParked(p, queue) ==
  IF queue = <<>> THEN p
  ELSE MarkParked([p EXCEPT !.reqs[Head(queue)].parkedAtDrain = TRUE], Tail(queue))

MarkParkedAtDrain(p) == MarkParked(p, p.acquireQueue)

\* drain() up to its await
PoolDrain ==
  /\ ~isDrained \/ resourceRecords /= <<>>
  /\ PCommit(DestroyAll([MarkParkedAtDrain(P) EXCEPT !.isDrained = TRUE], resourceRecords))
  /\ UNCHANGED <<rels, now>>

\* the timer of the withTimeout around create() fires: resourceRef rejects
\* with the TimeoutError and the catch handler of _createResource destroys
\* the record; the future of create() itself is still unsettled
CreateTimesOut(id) ==
  /\ opts.createTimeoutMs /= Infinity
  /\ recs[id].resourceRef = "pending"
  /\ ~PoolMicrotasksPending
  /\ PCommit(DestroyResource([P EXCEPT !.recs[id].resourceRef = "rejected"], id))
  /\ UNCHANGED <<rels, now>>

\* the future of create() settles after its timeout: the callbacks of
\* withTimeout run; the options _createResource passes name neither
\* cleanupOnLateResolve nor cleanupOnLateReject, so no hook runs
CreateSettlesLate(id, ok) ==
  /\ recs[id].create = "pending"
  /\ recs[id].resourceRef = "rejected"
  /\ PCommit([P EXCEPT !.recs[id].create = IF ok THEN "resolved" ELSE "rejected"])
  /\ UNCHANGED <<rels, now>>

\* the timer of the withTimeout around destroy fires: destroyRef resolves
\* with {error: TimeoutError}
DestroyTimesOut(id) ==
  /\ opts.destroyTimeoutMs /= Infinity
  /\ recs[id].destroyRef = "pending"
  /\ ~PoolMicrotasksPending
  /\ PCommit([P EXCEPT !.recs[id].destroyRef = "error"])
  /\ UNCHANGED <<rels, now>>

\* the timer of release's withTimeout fires, then release's catch handler
\* runs; the body of release keeps running
ReleaseTimesOut(l) ==
  /\ opts.defaultReleaseTimeoutMs /= Infinity
  /\ rels[l].pc \in {"onRelease", "awaitDestroy"}
  /\ ~rels[l].timedOut
  /\ ~PoolMicrotasksPending
  /\ ~(rels[l].pc = "awaitDestroy" /\ recs[leaseRec[l]].destroyRef \in {"done", "error"})
  /\ PCommit(IF rels[l].lease THEN MarkResourceAsReleased(P, l) ELSE P)
  /\ rels' = [rels EXCEPT ![l].timedOut = TRUE]
  /\ UNCHANGED now

\* the options of a pool whose create, destroy and release have deadlines
PoolTimeoutOptions ==
  { [DefaultOptions EXCEPT !.maxResources = 1,
                           !.createTimeoutMs = 5000,
                           !.destroyTimeoutMs = 5000,
                           !.defaultReleaseTimeoutMs = 5000],
    [DefaultOptions EXCEPT !.maxResources = 1,
                           !.maxConcurrentLeasesPerResource = 2,
                           !.createTimeoutMs = 5000,
                           !.destroyTimeoutMs = 5000,
                           !.defaultReleaseTimeoutMs = 5000] }

PInitTimeouts ==
  /\ QueueIdle
  /\ WithTimeoutIdle
  /\ opts \in PoolTimeoutOptions
  /\ isDrained = FALSE
  /\ resourceRecords = <<>>
  /\ recs = <<>>
  /\ leaseById = {}
  /\ leaseRec = <<>>
  /\ acquireQueue = <<>>
  /\ reqs = <<>>
  /\ rels = <<>>
  /\ now = MsPerSecond

\* The pool with deadlines takes fewer acquire() calls
MaxTimedAcquires == 2

\* acquire(options), at most MaxTimedAcquires times
AcquireTimed ==
  /\ Len(reqs) < MaxTimedAcquires
  /\ Acquire

PNextTimeouts ==
  \/ Initialize
  \/ AcquireTimed
  \/ \E r \in RequestIds : WakeContinues(r)
  \/ \E r \in RequestIds : ResourceAwaited(r)
  \/ \E r \in RequestIds, ok \in BOOLEAN : OnAcquireSettles(r, ok)
  \/ \E r \in RequestIds : AcquireTimesOut(r)
  \/ \E id \in RecordIds, ok \in BOOLEAN : CreateSettles(id, ok)
  \/ \E id \in RecordIds : CreateTimesOut(id)
  \/ \E id \in RecordIds, ok \in BOOLEAN : CreateSettlesLate(id, ok)
  \/ \E id \in RecordIds, ok \in BOOLEAN : DestroySettles(id, ok)
  \/ \E id \in RecordIds : DestroyTimesOut(id)
  \/ \E l \in RequestIds : Release(l)
  \/ \E l \in RequestIds, ok \in BOOLEAN : OnReleaseSettles(l, ok)
  \/ \E l \in RequestIds : ReleaseTimesOut(l)
  \/ \E l \in RequestIds : DestroyAwaited(l)
  \/ \E l \in RequestIds : Retire(l)
  \/ PoolDrain

\* the options of pools that can choose between reusing and creating
PoolAllocationOptions ==
  { [DefaultOptions EXCEPT !.maxResources = 2],
    [DefaultOptions EXCEPT !.maxResources = 2, !.maxConcurrentLeasesPerResource = 2],
    [DefaultOptions EXCEPT !.maxResources = 2, !.resourceAllocationMethod = "eager"],
    [DefaultOptions EXCEPT !.maxResources = 2, !.maxConcurrentLeasesPerResource = 2,
                           !.resourceAllocationMethod = "eager"] }

PInitAllocation ==
  /\ QueueIdle
  /\ WithTimeoutIdle
  /\ opts \in PoolAllocationOptions
  /\ isDrained = FALSE
  /\ resourceRecords = <<>>
  /\ recs = <<>>
  /\ leaseById = {}
  /\ leaseRec = <<>>
  /\ acquireQueue = <<>>
  /\ reqs = <<>>
  /\ rels = <<>>
  /\ now = MsPerSecond

PNextAllocation ==
  \/ Acquire
  \/ \E r \in RequestIds : WakeContinues(r)
  \/ \E r \in RequestIds : ResourceAwaited(r)
  \/ \E r \in RequestIds, ok \in BOOLEAN : OnAcquireSettles(r, ok)
  \/ \E r \in RequestIds : AcquireTimesOut(r)
  \/ \E id \in RecordIds, ok \in BOOLEAN : CreateSettles(id, ok)
  \/ \E id \in RecordIds, ok \in BOOLEAN : DestroySettles(id, ok)
  \/ \E l \in RequestIds : Release(l)
  \/ \E l \in RequestIds, ok \in BOOLEAN : OnReleaseSettles(l, ok)
  \/ \E l \in RequestIds : DestroyAwaited(l)
  \/ \E l \in RequestIds : Retire(l)
  \/ PoolDrain

\* the options of pools that retire a record after two uses
PoolUsesOptions ==
  { [DefaultOptions EXCEPT !.maxResources = 2, !.retireResourceAfterUses = 2],
    [DefaultOptions EXCEPT !.maxResources = 2, !.retireResourceAfterUses = 2,
                           !.maxConcurrentLeasesPerResource = 2] }

PInitUses ==
  /\ QueueIdle
  /\ WithTimeoutIdle
  /\ opts \in PoolUsesOptions
  /\ isDrained = FALSE
  /\ resourceRecords = <<>>
  /\ recs = <<>>
  /\ leaseById = {}
  /\ leaseRec = <<>>
  /\ acquireQueue = <<>>
  /\ reqs = <<>>
  /\ rels = <<>>
  /\ now = MsPerSecond

\* the options of pools that destroy a retired record forcibly one second
\* after its retirement
PoolForcedOptions ==
  { [DefaultOptions EXCEPT !.maxResources = 1,
                           !.retireResourceAfterUses = 1,
                           !.destroyRetiredResourceForciblyAfterSeconds = 1],
    [DefaultOptions EXCEPT !.maxResources = 1,
                           !.maxConcurrentLeasesPerResource = 2,
                           !.retireResourceAfterUses = 2,
                           !.destroyRetiredResourceForciblyAfterSeconds = 1],
    [DefaultOptions EXCEPT !.maxResources = 2,
                           !.retireResourceAfterSeconds = 1,
                           !.destroyRetiredResourceForciblyAfterSeconds = 1] }

\* wallTime.now() advances by half a second
PoolTickHalf ==
  /\ ClockMatters
  /\ now < MaxNow * MsPerSecond
  /\ now' = now + MsPerSecond \div 2
  /\ UNCHANGED <<qvars, wvars>>
  /\ UNCHANGED <<opts, isDrained, resourceRecords, recs, leaseById, leaseRec,
                 acquireQueue, reqs, rels>>

PInitForced ==
  /\ QueueIdle
  /\ WithTimeoutIdle
  /\ opts \in PoolForcedOptions
  /\ isDrained = FALSE
  /\ resourceRecords = <<>>
  /\ recs = <<>>
  /\ leaseById = {}
  /\ leaseRec = <<>>
  /\ acquireQueue = <<>>
  /\ reqs = <<>>
  /\ rels = <<>>
  /\ now = MsPerSecond

PNextForced ==
  \/ PoolTickHalf
  \/ AcquireTimed
  \/ \E r \in RequestIds : WakeContinues(r)
  \/ \E r \in RequestIds : ResourceAwaited(r)
  \/ \E r \in RequestIds, ok \in BOOLEAN : OnAcquireSettles(r, ok)
  \/ \E id \in RecordIds, ok \in BOOLEAN : CreateSettles(id, ok)
  \/ \E id \in RecordIds, ok \in BOOLEAN : DestroySettles(id, ok)
  \/ \E l \in RequestIds : Release(l)
  \/ \E l \in RequestIds, ok \in BOOLEAN : OnReleaseSettles(l, ok)
  \/ \E l \in RequestIds : DestroyAwaited(l)
  \/ \E l \in RequestIds : Retire(l)
  \/ PoolDrain

PNext ==
  \/ PoolTick
  \/ Initialize
  \/ Acquire
  \/ \E r \in RequestIds : WakeContinues(r)
  \/ \E r \in RequestIds : ResourceAwaited(r)
  \/ \E r \in RequestIds, ok \in BOOLEAN : OnAcquireSettles(r, ok)
  \/ \E r \in RequestIds : AcquireTimesOut(r)
  \/ \E id \in RecordIds, ok \in BOOLEAN : CreateSettles(id, ok)
  \/ \E id \in RecordIds, ok \in BOOLEAN : DestroySettles(id, ok)
  \/ \E l \in RequestIds : Release(l)
  \/ \E l \in RequestIds, ok \in BOOLEAN : OnReleaseSettles(l, ok)
  \/ \E l \in RequestIds : DestroyAwaited(l)
  \/ \E l \in RequestIds : Retire(l)
  \/ PoolDrain

\* ------------------------------------------------------------------------
\* withTimeout (promises.ts): one call with a finite timeoutMs
\* ------------------------------------------------------------------------
\* what a cleanup hook of the options does when it is called
HookBehaviours == {"absent", "returns", "throws"}

\* PromiseTimeoutOptions: abortController and the two hooks are optional
WithTimeoutOptions ==
  [abortController : BOOLEAN,
   cleanupOnLateResolve : HookBehaviours,
   cleanupOnLateReject : HookBehaviours]

\* mutant: a future that a later resolve or reject settles again
SettleAgain(p, state, value) == [state |-> state, value |-> value]

\* resolve and reject of createDecomposedPromise: the functions of a native
\* Promise, which leave a settled future as it is
Settle(p, state, value) ==
  IF p.state /= "pending" THEN p ELSE [state |-> state, value |-> value]

\* clearTimeout(timeout)
ClearTimeout(t) == IF t = "armed" THEN "cleared" ELSE t

\* withTimeout up to `return promise`; the caller may pass a controller
\* that is aborted already, whose 'abort' event never fires again
WInit ==
  /\ PoolIdle
  /\ QueueIdle
  /\ wtOptions \in WithTimeoutOptions
  /\ source = "pending"
  /\ reaction = "none"
  /\ promise = [state |-> "pending", value |-> "none"]
  /\ hasCancelled = FALSE
  /\ timeout = "armed"
  /\ signal \in IF wtOptions.abortController
                  THEN {[aborted |-> FALSE, reason |-> "none"],
                        [aborted |-> TRUE, reason |-> "caller"]}
                  ELSE {[aborted |-> FALSE, reason |-> "none"]}
  /\ abortCalls = <<>>
  /\ hookCalls = <<>>
  /\ events = <<>>

\* sourcePromise settles; its reaction is queued as a microtask: the .then
\* callback after a resolve, the .catch callback after a rejection
SourceSettles(outcome) ==
  /\ source = "pending"
  /\ source' = outcome
  /\ reaction' = IF outcome = "resolved" THEN "then" ELSE "catch"
  /\ events' = Append(events, "source")
  /\ UNCHANGED <<qvars, pvars>>
  /\ UNCHANGED <<wtOptions, promise, hasCancelled, timeout, signal, abortCalls, hookCalls>>

\* the callback given to sourcePromise.then; what it throws reaches the
\* callback given to .catch
ThenRuns ==
  /\ reaction = "then"
  /\ promise' = Settle(promise, "resolved", "value")
  /\ timeout' = ClearTimeout(timeout)
  /\ IF hasCancelled /\ wtOptions.cleanupOnLateResolve /= "absent"
       THEN /\ hookCalls' = Append(hookCalls, "cleanupOnLateResolve")
            /\ reaction' = IF wtOptions.cleanupOnLateResolve = "throws" THEN "catch" ELSE "none"
       ELSE /\ hookCalls' = hookCalls
            /\ reaction' = "none"
  /\ events' = Append(events, "observed")
  /\ UNCHANGED <<qvars, pvars>>
  /\ UNCHANGED <<wtOptions, source, hasCancelled, signal, abortCalls>>

\* the callback given to .catch, run for a rejection of sourcePromise or for
\* what the .then callback threw
CatchRuns ==
  /\ reaction = "catch"
  /\ promise' = Settle(promise, "rejected",
                        IF source = "rejected" THEN "rejection" ELSE "hookError")
  /\ timeout' = ClearTimeout(timeout)
  /\ hookCalls' = IF hasCancelled /\ wtOptions.cleanupOnLateReject /= "absent"
                    THEN Append(hookCalls, "cleanupOnLateReject") ELSE hookCalls
  /\ reaction' = "none"
  /\ events' = IF source = "rejected" THEN Append(events, "observed") ELSE events
  /\ UNCHANGED <<qvars, pvars>>
  /\ UNCHANGED <<wtOptions, source, hasCancelled, signal, abortCalls>>

\* the callback of setTimeout, a macrotask: no microtask is pending.
\* abortController.abort(error) on a signal that is aborted already does
\* nothing; otherwise the listener of withTimeout runs and returns at once,
\* hasCancelled being true
TimeoutFires ==
  /\ timeout = "armed"
  /\ reaction = "none"
  /\ hasCancelled' = TRUE
  /\ promise' = Settle(promise, "rejected", "TimeoutError")
  /\ timeout' = "fired"
  /\ IF wtOptions.abortController
       THEN /\ abortCalls' = Append(abortCalls, "TimeoutError")
            /\ signal' = IF signal.aborted THEN signal
                          ELSE [aborted |-> TRUE, reason |-> "TimeoutError"]
       ELSE UNCHANGED <<abortCalls, signal>>
  /\ events' = Append(events, "timer")
  /\ UNCHANGED <<qvars, pvars>>
  /\ UNCHANGED <<wtOptions, source, reaction, hookCalls>>

\* the caller aborts the controller; the 'abort' listener of withTimeout runs
ControllerAborts ==
  /\ wtOptions.abortController
  /\ ~signal.aborted
  /\ signal' = [aborted |-> TRUE, reason |-> "caller"]
  /\ IF hasCancelled
       THEN UNCHANGED <<hasCancelled, promise>>
       ELSE /\ hasCancelled' = TRUE
            /\ promise' = Settle(promise, "rejected", "AbortError")
  /\ events' = Append(events, "abort")
  /\ UNCHANGED <<qvars, pvars>>
  /\ UNCHANGED <<wtOptions, source, reaction, timeout, abortCalls, hookCalls>>

WNext ==
  \/ \E outcome \in {"resolved", "rejected"} : SourceSettles(outcome)
  \/ ThenRuns
  \/ CatchRuns
  \/ TimeoutFires
  \/ ControllerAborts

\* ------------------------------------------------------------------------
\* Specifications: one component runs, the other stays idle
\* ------------------------------------------------------------------------
vars == <<qvars, pvars, wvars>>

SpecQueue == QInit /\ [][QNext]_vars

SpecPool == PInit /\ [][PNext]_vars

SpecPoolTimeouts == PInitTimeouts /\ [][PNextTimeouts]_vars

SpecPoolAllocation == PInitAllocation /\ [][PNextAllocation]_vars

SpecPoolUses == PInitUses /\ [][PNextAllocation]_vars

SpecPoolForced == PInitForced /\ [][PNextForced]_vars

SpecWithTimeout == WInit /\ [][WNext]_vars

\* continuations are microtasks and the 60 s timer is a timer: the event loop
\* runs them; when a handler's future settles is up to the handler
QFairness ==
  /\ WF_vars(\E t \in TaskIds, h \in HandlerBehaviours : ProcessContinues(t, h))
  /\ WF_vars(\E t \in TaskIds : TimerFires(t))
  /\ WF_vars(\E i \in 1..Len(drains) : DrainContinues(i))

\* The queue with a clock that advances between calls, started once and
\* never paused or drained
QNextClock ==
  \/ Tick
  \/ OnError
  \/ \E h \in HandlerBehaviours : Enqueue(h)
  \/ \E h \in HandlerBehaviours : Start(h)
  \/ \E t \in TaskIds : Abort(t)
  \/ \E t \in TaskIds, o \in {"resolved", "rejected"} : HandlerSettles(t, o)
  \/ \E t \in TaskIds : TimerFires(t)
  \/ \E t \in TaskIds, h \in HandlerBehaviours : ProcessContinues(t, h)

SpecQueueClock == QInit /\ [][QNextClock]_vars

SpecQueueFair == QInit /\ [][QNext]_vars /\ QFairness

\* The queue with fewer enqueue calls, for the properties that need a full
\* search for fair cycles
MaxFairTasks == 2

\* enqueue(input, {signal}), at most MaxFairTasks times
EnqueueFair(h) ==
  /\ Len(taskRefs) < MaxFairTasks
  /\ Enqueue(h)

QNextFair ==
  \/ OnError
  \/ \E h \in HandlerBehaviours : EnqueueFair(h)
  \/ \E h \in HandlerBehaviours : Start(h)
  \/ Pause
  \/ \E t \in TaskIds : Abort(t)
  \/ \E t \in TaskIds, o \in {"resolved", "rejected"} : HandlerSettles(t, o)
  \/ \E t \in TaskIds : TimerFires(t)
  \/ \E t \in TaskIds, h \in HandlerBehaviours : ProcessContinues(t, h)
  \/ Drain
  \/ \E i \in 1..Len(drains) : DrainContinues(i)

SpecQueueFairSmall == QInit /\ [][QNextFair]_vars /\ QFairness

\* ------------------------------------------------------------------------
\* Properties of the task queue
\* ------------------------------------------------------------------------
IsTerminal(t) == taskRefs[t].state \in TerminalStates

\* the task's signal was aborted by a cancellation request (not by the
\* timeout) while the task was ACTIVE, and the abort won the withTimeout race
CancelledWhileActive(t) ==
  /\ abortedIn[t] = "active"
  /\ taskRefs[t].reason \in {"user", "drain"}
  /\ procs[t].wtError = "AbortError"

\* the task's signal was aborted while the task was QUEUED
CancelledWhileQueued(t) == abortedIn[t] = "queued"

\* C1: in every reachable state the ACTIVE bucket holds at most
\* maxConcurrentTasks tasks.
C1_ActiveAtMostMaxConcurrent == Len(tasks["active"]) <= maxConcurrentTasks

\* C1 witness: every worker slot is taken while a task still waits in QUEUED
\* on a RUNNING queue.
C1_Witness ==
  /\ qState = "running"
  /\ Len(tasks["active"]) = maxConcurrentTasks
  /\ Len(tasks["queued"]) > 0

\* C2 (as claimed): a task aborted while ACTIVE (by abort(), the caller's
\* signal or drain()) ends in CANCELLED, never in FAILED.
C2_AbortedActiveEndsCancelled ==
  \A t \in TaskIds :
    (CancelledWhileActive(t) /\ IsTerminal(t)) => taskRefs[t].state = "cancelled"

\* C3 (as claimed): 'error' is emitted exactly once for a task that went to
\* FAILED, and never for a task that ended because it was cancelled.
C3_ErrorOncePerFailureNoneOnCancel ==
  \A t \in TaskIds :
    /\ (IsTerminal(t) /\ (CancelledWhileQueued(t) \/ CancelledWhileActive(t)))
         => errorEmits[t] = 0
    /\ (taskRefs[t].state = "failed" /\ ~CancelledWhileActive(t)) => errorEmits[t] = 1

\* C4 (as claimed): `completed` is resolved iff the task is terminal, and it
\* is resolved at most once, with or without an 'error' listener.
C4_CompletedIffTerminal ==
  \A t \in TaskIds :
    /\ (taskRefs[t].completed > 0) <=> IsTerminal(t)
    /\ taskRefs[t].completed <= 1

\* the edges of the task lifecycle graph
LifecycleEdges ==
  {<<"queued", "active">>, <<"active", "succeeded">>, <<"active", "failed">>,
   <<"active", "cancelled">>, <<"queued", "cancelled">>}

\* C5: a task's state changes only along the lifecycle edges; a terminal
\* state never changes again.
C5_OnlyLifecycleEdges ==
  [][\A t \in TaskIds :
       taskRefs'[t].state /= taskRefs[t].state
         => <<taskRefs[t].state, taskRefs'[t].state>> \in LifecycleEdges]_qvars

\* C5 witness: a terminal task whose signal was aborted after it had become
\* terminal, and whose handler settled after the timeout had failed the task.
C5_Witness ==
  \E t, u \in TaskIds :
    /\ abortedIn[t] \in TerminalStates
    /\ taskRefs[u].state = "failed" /\ taskRefs[u].error = "TimeoutError"
    /\ procs[u].handler \in {"resolved", "rejected"}

\* C6: when a task becomes ACTIVE, no task enqueued before it is still in the
\* QUEUED bucket.
C6_StartsInEnqueueOrder ==
  [][\A b \in 1..Len(taskRefs') :
       (/\ taskRefs'[b].state = "active"
        /\ (b > Len(taskRefs) \/ taskRefs[b].state = "queued"))
         => \A a \in 1..(b - 1) : a \notin Range(tasks["queued"])]_qvars

\* C6 witness: task 1 left QUEUED by cancellation and task 2, enqueued after
\* it, has been started.
C6_Witness ==
  /\ Len(taskRefs) = 2
  /\ taskRefs[1].state = "cancelled" /\ abortedIn[1] = "queued"
  /\ taskRefs[2].state = "active"

\* ------------------------------------------------------------------------
\* Properties of the pool
\* ------------------------------------------------------------------------

\* the acquire() call this step began, 0 if none
NewRequest == IF Len(reqs') = Len(reqs) + 1 THEN Len(reqs') ELSE 0

\* C7: the pool never tracks more than maxResources records, retired ones
\* included; an acquire() that got no lease found the pool at maxResources
\* and is parked (or, with a full waiter queue, rejected) without a new record.
C7_RecordsAtMostMaxResources ==
  [][/\ Len(resourceRecords') <= opts.maxResources
     /\ (NewRequest /= 0 /\ leaseRec'[NewRequest] = 0) =>
          /\ Len(resourceRecords') = opts.maxResources
          /\ Len(recs') = Len(recs)
          /\ \/ /\ reqs'[NewRequest].pc = "parked"
                /\ acquireQueue' = Append(acquireQueue, NewRequest)
             \/ /\ reqs'[NewRequest].error = "queueFull"
                /\ Len(acquireQueue') >= opts.maxQueuedAcquireRequests]_vars

\* a full pool whose only record is retired and still leased, with an
\* acquire() parked behind it
C7_Witness ==
  /\ Len(resourceRecords) = opts.maxResources
  /\ \E i \in 1..Len(resourceRecords) :
       /\ IsRetired(recs[resourceRecords[i]])
       /\ recs[resourceRecords[i]].destroyRef = "unset"
  /\ \E r \in RequestIds :
       /\ reqs[r].pc = "parked"
       /\ r \in Range(acquireQueue)
       /\ leaseRec[r] = 0

\* C8: every resource record has at most maxConcurrentLeasesPerResource
\* active leases.
C8_LeasesAtMostMaxPerResource ==
  \A id \in RecordIds :
    Len(recs[id].activeLeases) <= opts.maxConcurrentLeasesPerResource

\* a record that shares its resource between two leases, at its limit, while
\* a further acquire() waits
C8_Witness ==
  /\ \E id \in RecordIds :
       /\ Len(recs[id].activeLeases) = opts.maxConcurrentLeasesPerResource
       /\ Len(recs[id].activeLeases) > 1
  /\ acquireQueue /= <<>>

C10_WaitersWokenInArrivalOrder ==
  [][/\ \A r \in Range(acquireQueue) \ Range(acquireQueue') :
          /\ reqs'[r].pc = "woken"
          /\ \A r2 \in Range(acquireQueue) \cap Range(acquireQueue') : r < r2
     /\ \A i, j \in 1..Len(acquireQueue') :
          i < j => acquireQueue'[i] < acquireQueue'[j]]_vars

\* the older of two waiters has been woken, the newer one is still parked
C10_Witness ==
  \E r \in RequestIds :
    /\ reqs[r].pc = "woken"
    /\ \E r2 \in Range(acquireQueue) : r < r2

C12_DrainedPoolStaysEmpty ==
  [][/\ isDrained' =>
          /\ resourceRecords' = <<>>
          /\ leaseById' = {}
          /\ \A id \in 1..Len(recs') : recs'[id].activeLeases = <<>>
     /\ isDrained => Len(recs') = Len(recs)]_vars

\* C13: a request that was parked in the waiter queue when drain() was called
\* is never granted a lease and its future never resolves with one.
C13_ParkedAtDrainGetsNoLease ==
  \A r \in RequestIds :
    reqs[r].parkedAtDrain => leaseRec[r] = 0 /\ reqs[r].wt /= "resolved"

\* C14: the queue state moves only along PAUSED->RUNNING, RUNNING->PAUSED,
\* PAUSED->DRAINING, RUNNING->DRAINING and DRAINING->DRAINED; in particular
\* DRAINED is never left.
C14_OnlyQueueStateEdges ==
  [][qState' /= qState =>
       <<qState, qState'>> \in {<<"paused", "running">>, <<"running", "paused">>,
                                <<"paused", "draining">>, <<"running", "draining">>,
                                <<"draining", "drained">>}]_vars

\* C15: after drain() every task reaches a terminal state and the queue
\* reaches DRAINED.
C15_DrainReachesDrained ==
  (qState = "draining") ~> (qState = "drained" /\ \A t \in TaskIds : IsTerminal(t))

\* C16: a task enqueued while the queue is RUNNING with a spare worker slot
\* is ACTIVE when enqueue returns.
C16_EnqueueWithSpareSlotStarts ==
  [][(/\ Len(taskRefs') = Len(taskRefs) + 1
      /\ qState = "running"
      /\ Len(tasks["active"]) < maxConcurrentTasks) =>
       taskRefs'[Len(taskRefs')].state = "active"]_vars

\* C17: enqueue refuses a task that would make the number of QUEUED tasks
\* exceed maxQueuedTasks, so |QUEUED| <= maxQueuedTasks in every state.
C17_QueuedAtMostMaxQueuedTasks == Len(tasks["queued"]) <= maxQueuedTasks

\* C18: a step that leaves the queue PAUSED makes no task ACTIVE (neither a
\* task enqueued during the pause nor a QUEUED task when a slot frees), and
\* a task that was ACTIVE still reaches a terminal state when its
\* continuation runs during the pause.
C18_PausedStartsNothing ==
  [][/\ qState' = "paused" =>
          \A t \in 1..Len(taskRefs') :
            taskRefs'[t].state = "active" =>
              t <= Len(taskRefs) /\ taskRefs[t].state = "active"
     /\ \A t \in TaskIds :
          (/\ qState = "paused"
           /\ taskRefs[t].state = "active"
           /\ ~procs[t].processed
           /\ procs'[t].processed) => taskRefs'[t].state \in TerminalStates]_vars

\* during a pause a task has finished and freed its slot, and a QUEUED task
\* has been left waiting next to the free slot
C18_Witness ==
  /\ qState = "paused"
  /\ tasks["queued"] /= <<>>
  /\ Len(tasks["active"]) < maxConcurrentTasks
  /\ \E t \in TaskIds :
       /\ taskRefs[t].state = "succeeded"
       /\ procs[t].processed
       /\ \E t2 \in Range(tasks["queued"]) : t < t2

\* C19: aborting a task that is still QUEUED makes it CANCELLED within the
\* abort call: error is the TaskFailureError built from the signal's reason,
\* completedAt is set, the task has left the QUEUED list and `completed` is
\* resolved. Its handler is never invoked afterwards, whatever the queue does
\* later: the task keeps state CANCELLED and never has a handler call.
C19_AbortQueuedCancelsAtOnce ==
  [][\A t \in TaskIds :
       /\ (taskRefs[t].state = "queued" /\ ~taskRefs[t].aborted /\ taskRefs'[t].aborted) =>
            /\ taskRefs'[t].state = "cancelled"
            /\ taskRefs'[t].error = "SignalReason"
            /\ taskRefs'[t].completedAt /= 0
            /\ t \notin Range(tasks'["queued"])
            /\ taskRefs'[t].completed > 0
            /\ procs'[t].handler = "none"
       /\ (abortedIn[t] = "queued") =>
            /\ taskRefs'[t] = taskRefs[t]
            /\ procs'[t] = procs[t] /\ procs[t].handler = "none"
            /\ t \notin Range(tasks'["queued"]) \cup Range(tasks'["active"])
            /\ errorEmits'[t] = 0]_vars

\* a task cancelled while QUEUED in a paused queue; the queue was started
\* afterwards and invoked the handler of a task enqueued later
C19_Witness ==
  \E t \in TaskIds, t2 \in TaskIds :
    /\ t < t2
    /\ abortedIn[t] = "queued" /\ taskRefs[t].state = "cancelled" /\ procs[t].handler = "none"
    /\ qState = "running"
    /\ procs[t2].handler = "resolved" /\ taskRefs[t2].state = "succeeded"

\* C20: for a task aborted while ACTIVE with its handler still running (the
\* wrapper was rejected by the abort or by the timeout), the terminal state
\* never carries an output and carries the error of the cancellation; and
\* once the task is terminal no later step, the settlement of the handler's
\* future included, changes any field of the TaskRef.
C20_LateSettlementChangesNothing ==
  [][\A t \in TaskIds :
       (abortedIn[t] = "active" /\ procs[t].wtError \in {"AbortError", "TimeoutError"}) =>
          /\ taskRefs'[t].state \in TerminalStates =>
                /\ taskRefs'[t].output = FALSE
                /\ taskRefs'[t].error = procs[t].wtError
          /\ taskRefs[t].state \in TerminalStates => taskRefs'[t] = taskRefs[t]]_vars

\* two tasks aborted while ACTIVE and terminal; the handler of one resolved
\* afterwards, the handler of the other rejected afterwards
C20_Witness ==
  \E t \in TaskIds, t2 \in TaskIds :
    /\ abortedIn[t] = "active" /\ procs[t].wtError = "AbortError"
    /\ taskRefs[t].state \in TerminalStates /\ procs[t].handler = "resolved"
    /\ taskRefs[t].output = FALSE
    /\ abortedIn[t2] = "active" /\ procs[t2].wtError = "AbortError"
    /\ taskRefs[t2].state \in TerminalStates /\ procs[t2].handler = "rejected"
    /\ taskRefs[t2].error = "AbortError"

\* the deadline of task t elapsed while the handler's future was unsettled
TimedOut(t) == t \in TaskIds /\ procs[t].wtError = "TimeoutError"

\* the task is FAILED and its error wraps the TimeoutError
FailedByTimeout(t) ==
  t \in TaskIds /\ taskRefs[t].state = "failed" /\ taskRefs[t].error = "TimeoutError"

\* the signal was aborted with the TimeoutError and the task is ACTIVE or FAILED
AbortedByTimeout(t) ==
  /\ t \in TaskIds
  /\ taskRefs[t].aborted /\ taskRefs[t].reason = "timeout"
  /\ taskRefs[t].state \in {"active", "failed"}

\* C21: when the 60 000 ms deadline elapses on an unsettled handler, the
\* task's signal is aborted with the TimeoutError at once, the task is never
\* anything but ACTIVE or FAILED from then on, and it does reach FAILED with
\* an error whose reason is the TimeoutError.
C21_TimeoutFailsTask ==
  \A t \in 1..MaxTasks :
    /\ [](TimedOut(t) => AbortedByTimeout(t))
    /\ (TimedOut(t) ~> FailedByTimeout(t))

\* a task FAILED by its deadline, its signal aborted with the timeout
C21_Witness ==
  \E t \in TaskIds :
    /\ procs[t].wtError = "TimeoutError" /\ procs[t].handler = "pending"
    /\ taskRefs[t].state = "failed" /\ taskRefs[t].error = "TimeoutError"
    /\ taskRefs[t].aborted /\ abortedIn[t] = "active"

\* terminal tasks the queue still lists, and those it has dropped
Retained == Range(tasks["succeeded"]) \cup Range(tasks["failed"]) \cup Range(tasks["cancelled"])
Evicted == {t \in TaskIds : IsTerminal(t) /\ t \notin Retained}

LeaseHeld(l) ==
  \/ l \in leaseById
  \/ \E id \in RecordIds : l \in Range(recs[id].activeLeases)

\* C23: once acquire() has rejected, whatever the cause (create rejected or
\* timed out, onAcquire rejected, the acquire timeout fired), the lease that
\* was reserved for it is in no record's active leases and not in the lease map.
C23_FailedAcquireHoldsNoLease ==
  \A r \in RequestIds : reqs[r].wt = "rejected" => ~LeaseHeld(r)

\* two requests had a lease on the same record: one was rejected by its own
\* timeout, the other because create() timed out (its future is unsettled)
C23_Witness ==
  \E r1 \in RequestIds, r2 \in RequestIds :
    /\ reqs[r1].wt = "rejected" /\ reqs[r1].error = "timeout" /\ leaseRec[r1] /= 0
    /\ reqs[r2].wt = "rejected" /\ reqs[r2].error = "create" /\ leaseRec[r2] = leaseRec[r1]
    /\ recs[leaseRec[r2]].create = "pending"
    /\ ~LeaseHeld(r1) /\ ~LeaseHeld(r2)

\* the future returned by release() on lease l has settled
ReleaseEnded(l) == rels[l].pc = "done" \/ rels[l].timedOut

\* C24: once release(lease) has ended, by its body running to the end, by
\* onRelease rejecting, by the release timeout, or by the destruction of the
\* record failing or timing out, the lease is in no record's active leases
\* and not in the lease map.
C24_ReleaseAlwaysReleases ==
  \A l \in RequestIds : ReleaseEnded(l) => ~LeaseHeld(l)

\* one release ended by its timeout while onRelease is still running, another
\* ended after the destruction of the record failed or timed out
C24_Witness ==
  \E l1 \in RequestIds, l2 \in RequestIds :
    /\ rels[l1].timedOut /\ rels[l1].pc = "onRelease" /\ rels[l1].lease
    /\ rels[l2].pc = "done" /\ ~rels[l2].timedOut /\ rels[l2].lease
    /\ recs[leaseRec[l2]].destroyRef = "error"
    /\ ~LeaseHeld(l1) /\ ~LeaseHeld(l2)

\* C25: an acquire() whose timeout fired is rejected with the timeout error
\* for good and holds no lease from the rejection on: a lease it had reserved
\* is released in the same step, and it reserves none later, also when freed
\* capacity dequeues it.
C25_TimedOutAcquireHoldsNoLease ==
  [][\A r \in RequestIds :
       /\ reqs'[r].error = "timeout" =>
            /\ reqs'[r].wt = "rejected"
            /\ r \notin leaseById'
            /\ \A id \in 1..Len(recs') : r \notin Range(recs'[id].activeLeases)
       /\ reqs[r].error = "timeout" =>
            /\ reqs'[r].error = "timeout"
            /\ leaseRec'[r] = leaseRec[r]]_vars

\* one request timed out while parked and was dequeued later without
\* reserving a lease; another timed out while it waited for create()
C25_Witness ==
  \E r1 \in RequestIds, r2 \in RequestIds :
    /\ reqs[r1].error = "timeout" /\ reqs[r1].pc = "failed" /\ leaseRec[r1] = 0
    /\ r1 \notin Range(acquireQueue)
    /\ reqs[r2].error = "timeout" /\ reqs[r2].pc = "abandoned" /\ leaseRec[r2] /= 0
    /\ recs[leaseRec[r2]].resourceRef = "pending"

\* destroy(resource) was invoked with the resource of record id:
\* `resourceRef.then((resource) => this._options.destroy(resource))` runs
\* only for a destroyed record whose resourceRef resolved
DestroyInvoked(id) == recs[id].destroys > 0 /\ recs[id].resourceRef = "resolved"

\* C26: a resource whose create() resolved only after createTimeoutMs had
\* elapsed has been passed to destroy().
C26_LateResourceIsDestroyed ==
  \A id \in RecordIds :
    (recs[id].create = "resolved" /\ recs[id].resourceRef = "rejected") => DestroyInvoked(id)

\* the pool at the moment the allocation decision of this step is taken:
\* acquire() revalidates first, a woken request decides on the pool as it is
BeforeAllocation == IF Len(reqs') > Len(reqs) THEN UpdateAvailableResources(P) ELSE P

\* the positions in _resourceRecords of the non-retired records with spare capacity
EligiblePositions(p) ==
  {i \in 1..Len(p.resourceRecords) :
     /\ p.recs[p.resourceRecords[i]].retiredAt = 0
     /\ Len(p.recs[p.resourceRecords[i]].activeLeases) < p.opts.maxConcurrentLeasesPerResource}

NumTotalLeases(id) == Len(recs[id].activeLeases) + Len(recs[id].pastLeases)

\* the number of leases granted so far, and of create() calls they need
LeasesGranted == Cardinality({r \in RequestIds : leaseRec[r] /= 0})
CreatesPerUses == (LeasesGranted + opts.retireResourceAfterUses - 1) \div opts.retireResourceAfterUses

\* no create() failed and no record was retired for another cause than its uses
OnlyRetiredByUses ==
  \A id \in RecordIds :
    /\ recs[id].resourceRef /= "rejected"
    /\ recs[id].retiredAt /= 0 => NumTotalLeases(id) >= opts.retireResourceAfterUses

FirstOf(kinds) ==
  LET idx == {i \in 1..Len(events) : events[i] \in kinds}
  IN IF idx = {} THEN "none" ELSE events[CHOOSE i \in idx : \A j \in idx : i <= j]

\* what the returned future holds when the given event wins
OutcomeOf(event) ==
  CASE event = "timer" -> [state |-> "rejected", value |-> "TimeoutError"]
    [] event = "abort" -> [state |-> "rejected", value |-> "AbortError"]
    [] OTHER -> IF source = "resolved" THEN [state |-> "resolved", value |-> "value"]
                ELSE [state |-> "rejected", value |-> "rejection"]

\* the controller was aborted before withTimeout was called
AbortedBeforeCall == signal.reason = "caller" /\ "abort" \notin Range(events)

\* C29 as stated: once settled, the returned future holds the outcome of the
\* first event among the source settling, the timer firing and the controller
\* aborting, and a timer that is first leaves the controller aborted with the
\* TimeoutError.
C29_FirstEventWins ==
  LET first == FirstOf({"source", "timer", "abort"})
  IN /\ promise.state /= "pending" => promise = OutcomeOf(first)
     /\ (first = "timer" /\ wtOptions.abortController) =>
           signal = [aborted |-> TRUE, reason |-> "TimeoutError"]

\* C29, amended: the returned future is settled by, and for good holds the
\* outcome of, the first event withTimeout observes among the reaction to the
\* source's settlement, the timer firing and the controller aborting; a timer
\* that is first calls abort(TimeoutError) on the controller once, which aborts
\* it with that error unless it was aborted before the call.
C29_FirstObservedWins ==
  LET first == FirstOf({"observed", "timer", "abort"})
  IN /\ first = "none" => promise.state = "pending"
     /\ first /= "none" => promise = OutcomeOf(first)
     /\ (first = "timer" /\ wtOptions.abortController) =>
           /\ abortCalls = <<"TimeoutError">>
           /\ ~AbortedBeforeCall => signal = [aborted |-> TRUE, reason |-> "TimeoutError"]

\* the source resolved, the controller was aborted before the reaction to the
\* resolve ran: the returned future holds the AbortError
C29_Witness ==
  /\ events = <<"source", "abort", "observed">>
  /\ source = "resolved"
  /\ promise = [state |-> "rejected", value |-> "AbortError"]

\* the source settled after the timer fired or the controller aborted
SourceSettledLate ==
  /\ source /= "pending"
  /\ FirstOf({"source", "timer", "abort"}) \in {"timer", "abort"}

\* the hook that matches the source's settlement
MatchingHook ==
  IF source = "resolved" THEN "cleanupOnLateResolve" ELSE "cleanupOnLateReject"

\* C30: at most one hook invocation; a hook is invoked only when the source
\* settled after the timer or the abort had won, and it is the matching one;
\* once the reaction to such a late settlement has run, the matching hook (if
\* the options carry it) has been invoked exactly once.
C30_LateHookExactlyOnce ==
  /\ Len(hookCalls) <= 1
  /\ hookCalls /= <<>> => SourceSettledLate /\ hookCalls[1] = MatchingHook
  /\ (SourceSettledLate /\ reaction = "none" /\ wtOptions[MatchingHook] /= "absent")
        => Len(hookCalls) = 1

\* ------------------------------------------------------------------------
\* Further properties of the task queue
\* ------------------------------------------------------------------------
\* pause() immediately followed by start(), as one function of the queue
PauseThenStart(q, h) ==
  StartNextIfPossible([[q EXCEPT !.state = "paused"] EXCEPT !.state = "running"], h)

\* C31: on a RUNNING queue, pause() followed at once by start() leaves the
\* queue RUNNING and every task in the state and the bucket it was in.
C31_PauseStartIsIdentity ==
  qState = "running" =>
    \A h \in HandlerBehaviours :
      LET q == PauseThenStart(Q, h)
      IN /\ q.state = "running"
         /\ q.tasks = tasks
         /\ \A t \in TaskIds : q.refs[t].state = taskRefs[t].state

\* a step of enqueue, of start or of the completion of a task
SchedulerStep ==
  \/ Len(taskRefs') = Len(taskRefs) + 1
  \/ qState = "paused" /\ qState' = "running"
  \/ \E t \in TaskIds : ~procs[t].processed /\ procs'[t].processed

\* C32: when enqueue, start or a task-completion step returns with the queue
\* RUNNING, no task is QUEUED while a worker slot is free.
C32_WorkConserving ==
  [][(SchedulerStep /\ qState' = "running") =>
       ~(Len(tasks'["queued"]) > 0 /\ Len(tasks'["active"]) < maxConcurrentTasks)]_vars

\* the task is ACTIVE
BecameActive(t) == t \in TaskIds /\ taskRefs[t].state = "active"

\* the task is in a terminal state and holds no worker slot
LeftActive(t) ==
  t \in TaskIds /\ IsTerminal(t) /\ t \notin Range(tasks["active"])

\* C40: every task that becomes ACTIVE eventually reaches a terminal state
\* and leaves the ACTIVE bucket, whether its handler resolves, rejects,
\* throws synchronously or never settles.
C40_ActiveTaskTerminates ==
  \A t \in 1..MaxTasks : BecameActive(t) ~> LeftActive(t)

\* ------------------------------------------------------------------------
\* Further properties of the resource pool
\* ------------------------------------------------------------------------
\* acquire() of request r threw 'INVARIANT VIOLATION: No available capacity
\* on dequeue.'
InvariantViolation(r) == reqs[r].error = "invariant"

\* C33: a parked request that revalidate wakes and that has not timed out
\* obtains a lease; the INVARIANT VIOLATION error is unreachable.
C33_WokenRequestGetsLease ==
  \A r \in RequestIds : ~InvariantViolation(r)

\* request r is parked in the waiter queue and its acquire has not timed out
ParkedAndPending(r) ==
  /\ reqs[r].pc = "parked"
  /\ reqs[r].wt = "pending"
  /\ r \in Range(acquireQueue)

\* C34: while the pool is not drained and no woken waiter has yet to run, a
\* parked request whose acquire has not timed out means that the pool has no
\* available capacity.
C34_NoLostWakeup ==
  (/\ ~isDrained
   /\ ~PoolMicrotasksPending
   /\ \E r \in RequestIds : ParkedAndPending(r))
     => GetAvailableCapacity(P) = 0

\* C35: a record's retiredAt is set at most once: once set, no step changes
\* its value.
C35_RetiredAtSetOnce ==
  [][\A id \in RecordIds :
       IsRetired(recs[id]) => recs'[id].retiredAt = recs[id].retiredAt]_vars

\* the step removes record id from the pool's record set
RemovedInStep(id) ==
  id \in Range(resourceRecords) /\ id \notin Range(resourceRecords')

\* the step calls _destroyResource on record id
DestructionBeginsInStep(id) == recs'[id].destroys > recs[id].destroys

\* the original reading: removal and destruction only of retired records or
\* in a drained pool
C36_OnlyRetiredOrDrained ==
  [][\A id \in RecordIds :
       (RemovedInStep(id) \/ DestructionBeginsInStep(id)) =>
         (IsRetired(recs'[id]) \/ isDrained')]_vars

\* C36: a record leaves the record set, and its destruction begins, only when
\* it is retired, the pool has been drained, or its creation has failed.
C36_DestructionHasCause ==
  [][\A id \in RecordIds :
       (RemovedInStep(id) \/ DestructionBeginsInStep(id)) =>
         \/ IsRetired(recs'[id])
         \/ isDrained'
         \/ recs'[id].resourceRef = "rejected"]_vars

\* a record destroyed because its create() rejected, neither retired nor
\* drained
C36_Witness ==
  \E id \in RecordIds :
    /\ recs[id].resourceRef = "rejected"
    /\ recs[id].destroys = 1
    /\ id \notin Range(resourceRecords)
    /\ ~IsRetired(recs[id])
    /\ ~isDrained

\* the number of times destroy(resource) is called for record id: once for
\* each _destroyResource on a record whose resourceRef resolved
DestroyCalls(id) == IF recs[id].resourceRef = "resolved" THEN recs[id].destroys ELSE 0

\* C37: the destroy() function of the options is invoked at most once for
\* each created resource.
C37_DestroyAtMostOnce == \A id \in RecordIds : DestroyCalls(id) <= 1

\* the step in which acquire returns the ExternalLease of request r
HandsOutLease(r) == reqs[r].pc /= "returned" /\ reqs'[r].pc = "returned"

\* C38: when acquire hands an ExternalLease to its caller the lease is in
\* the lease map and its record is still in the pool's record set.
C38_HandedLeaseIsActive ==
  [][\A r \in RequestIds :
       HandsOutLease(r) =>
         /\ r \in leaseById'
         /\ leaseRec'[r] \in Range(resourceRecords')]_vars

\* the age in clock milliseconds at which a retired record is due for
\* forced destruction
ForcedAgeMs == MsPerSecond * opts.destroyRetiredResourceForciblyAfterSeconds

\* lease l is not given back by this step: neither its acquire nor its
\* release moves
LeaseUntouched(l) == reqs'[l] = reqs[l] /\ rels'[l] = rels[l]

\* the step destroys the retired record id although one of its leases was
\* active and was not given back: a forced destruction
ForciblyDestroyedInStep(id) ==
  /\ id \in Range(resourceRecords)
  /\ IsRetired(recs[id])
  /\ DestructionBeginsInStep(id)
  /\ ~isDrained'
  /\ recs'[id].resourceRef /= "rejected"
  /\ \E l \in Range(recs[id].activeLeases) : LeaseUntouched(l)

\* no forced destruction before the age is reached
NotForcedEarly ==
  \A id \in RecordIds :
    ForciblyDestroyedInStep(id) => now - recs[id].retiredAt >= ForcedAgeMs

\* an acquire(), which revalidates on entry, destroys every retired record
\* that has reached the age
ForcedWhenDue ==
  \A id \in RecordIds :
    (/\ Len(reqs') > Len(reqs)
     /\ id \in Range(resourceRecords)
     /\ IsRetired(recs[id])
     /\ now - recs[id].retiredAt >= ForcedAgeMs) => id \notin Range(resourceRecords')

\* C39: a retired record with active leases is not destroyed before
\* destroyRetiredResourceForciblyAfterSeconds seconds of clock time have
\* passed since its retiredAt, and the first revalidate at or after that age
\* destroys it.
C39_ForcedAfterSeconds == [][NotForcedEarly /\ ForcedWhenDue]_vars
====
